---- MODULE Spec2Model ----
(***************************************************************************)
(* Model of the decision-maker widget, the wheel variant and the binary   *)
(* variant (my-app), each an App component: React state of the component, *)
(* the timers it schedules, and the handlers that read and write them.    *)
(* A JavaScript number that holds degrees or a random draw is an IEEE 754  *)
(* double, rounded as the engine rounds it; weights and counts are         *)
(* integers.                                                               *)
(***************************************************************************)
EXTENDS Integers, Sequences, FiniteSets, TLC

\* ---------------------------------------------------------------- bounds
\* most items the registry holds in the model
MaxItems == 3
\* largest weight the user enters
MaxWeight == 3
\* Date.now() takes the values 1..MaxClock
MaxClock == 2
\* most decide-completion callbacks pending at once
MaxPending == 2
\* Math.random() takes the values k / RandomSteps, 0 <= k < RandomSteps
RandomSteps == 4

\* --------------------------------------------------- natural numbers
\* a natural number is the sequence of its digits in base 2^15, least
\* significant first, without leading zeros; 0 is <<>>
LimbBase == 128 * 256

RECURSIVE Pow2(_)
Pow2(k) == IF k = 0 THEN 1 ELSE 2 * Pow2(k - 1)

RECURSIVE NNorm(_)
NNorm(a) ==
    IF a # <<>> /\ a[Len(a)] = 0 THEN NNorm(SubSeq(a, 1, Len(a) - 1)) ELSE a

RECURSIVE NFromInt(_)
NFromInt(n) ==
    IF n = 0 THEN <<>> ELSE <<n % LimbBase>> \o NFromInt(n \div LimbBase)

\* a * c + carry, for 0 <= c <= 2^15
RECURSIVE NMulSmall(_, _, _)
NMulSmall(a, c, carry) ==
    IF a = <<>> THEN NFromInt(carry)
    ELSE LET v == Head(a) * c + carry
         IN  <<v % LimbBase>> \o NMulSmall(Tail(a), c, v \div LimbBase)

RECURSIVE NAddC(_, _, _)
NAddC(a, b, carry) ==
    IF a = <<>> /\ b = <<>> THEN NFromInt(carry)
    ELSE LET x == IF a = <<>> THEN 0 ELSE Head(a)
             y == IF b = <<>> THEN 0 ELSE Head(b)
             v == x + y + carry
         IN  <<v % LimbBase>>
             \o NAddC(IF a = <<>> THEN a ELSE Tail(a),
                      IF b = <<>> THEN b ELSE Tail(b), v \div LimbBase)

NAdd(a, b) == NAddC(a, b, 0)

\* a - b - borrow for a >= b + borrow, digits not yet normalised
RECURSIVE NSubB(_, _, _)
NSubB(a, b, borrow) ==
    IF a = <<>> THEN <<>>
    ELSE LET y == IF b = <<>> THEN 0 ELSE Head(b)
             v == Head(a) - y - borrow
         IN  <<v % LimbBase>>
             \o NSubB(Tail(a), IF b = <<>> THEN b ELSE Tail(b),
                      IF v < 0 THEN 1 ELSE 0)

NSub(a, b) == NNorm(NSubB(a, b, 0))

\* -1, 0, 1 as a < b, a = b, a > b
RECURSIVE NCmpFrom(_, _, _)
NCmpFrom(a, b, i) ==
    IF i = 0 THEN 0
    ELSE IF a[i] < b[i] THEN -1
    ELSE IF a[i] > b[i] THEN 1
    ELSE NCmpFrom(a, b, i - 1)

NCmp(a, b) ==
    IF Len(a) < Len(b) THEN -1
    ELSE IF Len(a) > Len(b) THEN 1
    ELSE NCmpFrom(a, b, Len(a))

\* quotient and remainder of a by t, 0 < t <= 2^15; digits from i down
RECURSIVE NDivFrom(_, _, _, _)
NDivFrom(a, t, i, rem) ==
    IF i = 0 THEN [q |-> <<>>, r |-> rem]
    ELSE LET v == rem * LimbBase + a[i]
             rest == NDivFrom(a, t, i - 1, v % t)
         IN  [q |-> rest.q \o <<v \div t>>, r |-> rest.r]

NDivSmall(a, t) ==
    LET d == NDivFrom(a, t, Len(a), 0) IN [q |-> NNorm(d.q), r |-> d.r]

Zeros(n) == [i \in 1..n |-> 0]

\* a * 2^k
NShl(a, k) ==
    IF a = <<>> THEN <<>>
    ELSE Zeros(k \div 15) \o NMulSmall(a, Pow2(k % 15), 0)

\* floor(a / 2^k)
NShr(a, k) ==
    IF Len(a) <= k \div 15 THEN <<>>
    ELSE NDivSmall(SubSeq(a, (k \div 15) + 1, Len(a)), Pow2(k % 15)).q

RECURSIVE BitLen(_)
BitLen(x) == IF x = 0 THEN 0 ELSE 1 + BitLen(x \div 2)

NBitLen(a) == IF a = <<>> THEN 0 ELSE 15 * (Len(a) - 1) + BitLen(a[Len(a)])

NIsOdd(a) == a # <<>> /\ a[1] % 2 = 1

\* ------------------------------------------- IEEE 754 binary64 numbers
\* a non-negative double is m * 2^e with a mantissa m of exactly 53 bits;
\* zero has the mantissa <<>>
DZero == [m |-> <<>>, e |-> 0]

\* the double nearest to n * 2^e, ties to the even mantissa: n has len bits,
\* q is n without its s = len - 53 low bits, and cmp compares the bits cut
\* off with half a unit of q
RoundsUp(q, cmp) == cmp = 1 \/ (cmp = 0 /\ NIsOdd(q))

Renormalised(q, e) ==
    IF NBitLen(q) = 54 THEN [m |-> NShr(q, 1), e |-> e + 1]
    ELSE [m |-> q, e |-> e]

RoundCut(n, e, s, q) ==
    Renormalised(
        IF RoundsUp(q, NCmp(NSub(n, NShl(q, s)), NShl(<<1>>, s - 1)))
        THEN NAdd(q, <<1>>) ELSE q,
        e + s)

RoundLen(n, e, len) ==
    IF len <= 53 THEN [m |-> NShl(n, 53 - len), e |-> e - (53 - len)]
    ELSE RoundCut(n, e, len - 53, NShr(n, len - 53))

RoundToDouble(n, e) ==
    IF n = <<>> THEN DZero ELSE RoundLen(n, e, NBitLen(n))

DFromInt(n) == RoundToDouble(NFromInt(n), 0)

\* a / b of two integers 0 <= a, 0 < b <= 2^15: the quotient is cut after
\* 90 binary places and a last bit records whether anything was cut off
RoundQuotient(d) ==
    RoundToDouble(NMulSmall(d.q, 2, IF d.r = 0 THEN 0 ELSE 1), -91)

DDivInt(a, b) == RoundQuotient(NDivSmall(NShl(NFromInt(a), 90), b))

\* x * c for an integer 0 <= c <= 2^15
DMulInt(x, c) == RoundToDouble(NMulSmall(x.m, c, 0), x.e)

DMin(a, b) == IF a < b THEN a ELSE b

DAdd(x, y) ==
    IF x.m = <<>> THEN y
    ELSE IF y.m = <<>> THEN x
    ELSE LET e == DMin(x.e, y.e)
         IN  RoundToDouble(NAdd(NShl(x.m, x.e - e), NShl(y.m, y.e - e)), e)

\* -1, 0, 1 as x < y, x = y, x > y
DCmp(x, y) ==
    IF x.m = <<>> /\ y.m = <<>> THEN 0
    ELSE IF x.m = <<>> THEN -1
    ELSE IF y.m = <<>> THEN 1
    ELSE IF x.e < y.e THEN -1
    ELSE IF x.e > y.e THEN 1
    ELSE NCmp(x.m, y.m)

DLe(x, y) == DCmp(x, y) <= 0
DLt(x, y) == DCmp(x, y) < 0

\* x - y for x >= y
DSub(x, y) ==
    IF y.m = <<>> THEN x
    ELSE LET e == DMin(x.e, y.e)
         IN  RoundToDouble(NSub(NShl(x.m, x.e - e), NShl(y.m, y.e - e)), e)

\* x / 2
DHalf(x) == IF x.m = <<>> THEN x ELSE [x EXCEPT !.e = x.e - 1]

\* ------------------------------------------------------------------ text
\* a text is a sequence of one-character strings
RECURSIVE TrimStart(_)
TrimStart(s) ==
    IF s # <<>> /\ Head(s) = " " THEN TrimStart(Tail(s)) ELSE s

RECURSIVE TrimEnd(_)
TrimEnd(s) ==
    IF s # <<>> /\ s[Len(s)] = " " THEN TrimEnd(SubSeq(s, 1, Len(s) - 1)) ELSE s

\* trimming at the start only
TrimStartOnly(s) == TrimStart(s)

\* String.prototype.trim
Trim(s) == TrimEnd(TrimStart(s))

\* what the user types into the decision text field
InputTexts == {<<>>, <<" ">>, <<" ", "a">>, <<"b", " ">>}

Teams == {"product", "engineering"}

\* parseInt of what the user types into the weight field: NaN or an integer
NaN == [nan |-> TRUE, n |-> 0]
Entry(v) == [nan |-> FALSE, n |-> v]
WeightEntries ==
    {NaN} \cup {[nan |-> FALSE, n |-> v] : v \in (-1)..MaxWeight}

\* --------------------------------------------------------- notifications
NoNotification == <<>>
AddError ==
    <<"Error: Decision text and a positive weight (1 or more) are required!">>
DecideError ==
    <<"Error: Please add at least one decision item for each team before deciding!">>
\* `You should ${decision}!`
FinalMessage(decision) == <<"You should ">> \o decision \o <<"!">>
\* notification.includes("Error"); the labels of the model hold no "Error"
IncludesError(n) == n \in {AddError, DecideError}

\* ----------------------------------------------------------------- items
NoItem == [id |-> 0, decision |-> <<>>, weight |-> 0, team |-> "none"]

\* ---------------------------------------------------------- handleDecide
fullSpins == 5

\* f as an explicit table of its values, so that each is computed once
Tabulated(f) == f @@ <<>>

\* the numbers 0, 1, ... the handlers compute with, as doubles
MaxTotal == MaxWeight * MaxItems
Num == Tabulated([n \in 0..MaxTotal |-> DFromInt(n)])
Deg360 == DFromInt(360)

\* the exclusion test with the teams mixed up
SkippedWrongTeam(item, better) == better /\ item.team = "engineering"

\* the exclusion test of the fairness override
Skipped(item, better) == better /\ item.team = "product"

RECURSIVE SumWeights(_, _, _)
SumWeights(items, better, i) ==
    IF i > Len(items) THEN 0
    ELSE (IF Skipped(items[i], better) THEN 0 ELSE items[i].weight)
         + SumWeights(items, better, i + 1)

\* the total over every item, excluded or not
TotalWeightOfAll(items, better) == SumWeights(items, FALSE, 1)

\* totalWeight of handleDecide
DecideTotalWeight(items, better) == SumWeights(items, better, 1)

\* number of items of team "product"
RECURSIVE ProductDecisions(_, _)
ProductDecisions(items, i) ==
    IF i > Len(items) THEN 0
    ELSE (IF items[i].team = "product" THEN 1 ELSE 0)
         + ProductDecisions(items, i + 1)

\* the guard with && in place of ||
EachTeamPresentAnd(items) ==
    ~ (ProductDecisions(items, 1) < 1
       /\ Len(items) - ProductDecisions(items, 1) < 1)

\* the guard of handleDecide: one item of each team
EachTeamPresent(items) ==
    ~ (ProductDecisions(items, 1) < 1
       \/ Len(items) - ProductDecisions(items, 1) < 1)

\* (item.weight / totalWeight) * 360, by weight and totalWeight
SegmentDegrees ==
    Tabulated([w \in 1..MaxWeight, t \in 1..MaxTotal |->
                  DMulInt(DDivInt(w, t), 360)])

\* Math.random() * totalWeight, Math.random() being k / RandomSteps
RandomNum ==
    Tabulated([k \in 0..(RandomSteps - 1), t \in 0..MaxTotal |->
                  DMulInt(DDivInt(k, RandomSteps), t)])

\* the locals of handleDecide before its loop; selectedItem is the position
\* of the selected item in the registry, 0 for null
LoopStart(randomNum) ==
    [randomNum |-> randomNum, selectedItem |-> 0,
     cumulativeWeight |-> DZero,
     winningStartDegree |-> DZero, winningEndDegree |-> DZero]

\* the test of the loop with < in place of <=
SelectsStrict(randomNum, itemWeight) == DLt(randomNum, Num[itemWeight])

\* "randomNum -= item.weight; if (randomNum <= 0)", as the test
\* randomNum <= item.weight before the subtraction: a difference of doubles
\* is <= 0 exactly when the real difference is
Selects(randomNum, itemWeight) == DLe(randomNum, Num[itemWeight])

\* the selection loop from item i on, st the locals so far; LoopBody is the
\* body for an item that is not skipped, end its winningEndDegree.
\* randomNum is not read again once an item is selected.
RECURSIVE DecideLoop(_, _, _, _, _)
LoopBody(items, better, totalWeight, i, st, end) ==
    IF Selects(st.randomNum, items[i].weight)
    THEN [st EXCEPT !.winningStartDegree = st.cumulativeWeight,
                    !.winningEndDegree = end,
                    !.selectedItem = i]
    ELSE DecideLoop(items, better, totalWeight, i + 1,
           [st EXCEPT !.winningStartDegree = st.cumulativeWeight,
                      !.winningEndDegree = end,
                      !.randomNum = DSub(st.randomNum, Num[items[i].weight]),
                      !.cumulativeWeight = end])

DecideLoop(items, better, totalWeight, i, st) ==
    IF i > Len(items) THEN st
    ELSE IF Skipped(items[i], better)
    THEN DecideLoop(items, better, totalWeight, i + 1, st)
    ELSE LoopBody(items, better, totalWeight, i, st,
                  DAdd(st.cumulativeWeight,
                       SegmentDegrees[items[i].weight, totalWeight]))

\* the rotation without the turn back from 360
FinalDegreeNoTurnBack(winningStartDegree, winningEndDegree) ==
    DAdd(DHalf(DAdd(winningStartDegree, winningEndDegree)),
         DFromInt(5 * 360))

\* the rotation for a winning segment
FinalDegree(winningStartDegree, winningEndDegree) ==
    LET targetCenterDegree ==
            DHalf(DAdd(winningStartDegree, winningEndDegree))
    IN  DAdd(DSub(Deg360, targetCenterDegree), DFromInt(fullSpins * 360))

\* what handleDecide computes, past its guard, from the registry, the
\* override and the draw k / RandomSteps; st is the locals after the loop
Selected(totalWeight, randomNum, st) ==
    [totalWeight |-> totalWeight,
     randomNum |-> randomNum,
     selectedItem |-> st.selectedItem,
     winningStartDegree |-> st.winningStartDegree,
     winningEndDegree |-> st.winningEndDegree,
     finalDegree |-> FinalDegree(st.winningStartDegree, st.winningEndDegree)]

SelectionFor(items, better, totalWeight, randomNum) ==
    Selected(totalWeight, randomNum,
             DecideLoop(items, better, totalWeight, 1, LoopStart(randomNum)))

Selection(items, better, k) ==
    SelectionFor(items, better, DecideTotalWeight(items, better),
                 RandomNum[k, DecideTotalWeight(items, better)])

\* Selection tabulated over the weights and teams of the registries of the
\* model (it reads nothing else of an item)
Shapes ==
    UNION {[1..n -> [weight : 1..MaxWeight, team : Teams]] : n \in 0..MaxItems}

Shape(items) ==
    [i \in 1..Len(items) |->
        [weight |-> items[i].weight, team |-> items[i].team]]

SelectionTable ==
    Tabulated([p \in Shapes, better \in BOOLEAN, k \in 0..(RandomSteps - 1) |->
                  Selection(p, better, k)])

\* ---------------------------------------------------- generateWheelStyle
\* number of entries of the colour palette
paletteSize == 10

\* the arcs the forEach of generateWheelStyle pushes, from item i on
RECURSIVE WheelStops(_, _, _, _)
WheelStops(items, totalWeight, i, currentDegree) ==
    IF i > Len(items) THEN <<>>
    ELSE LET degrees == SegmentDegrees[items[i].weight, totalWeight]
             next == DAdd(currentDegree, degrees)
         IN  <<[color |-> (i - 1) % paletteSize,
                from |-> currentDegree,
                to |-> next]>>
             \o WheelStops(items, totalWeight, i + 1, next)

\* the conic gradient of the wheel: arc i is drawn for item i of the
\* registry, and the last stop is replaced by 360deg
GenerateWheelStyle(items) ==
    IF Len(items) = 0 THEN <<>>
    ELSE LET stops == WheelStops(items, SumWeights(items, FALSE, 1), 1, DZero)
         IN  [stops EXCEPT ![Len(items)].to = Deg360]

\* x less full turns
RECURSIVE DMod360(_)
DMod360(x) == IF DLt(x, Deg360) THEN x ELSE DMod360(DSub(x, Deg360))

\* the angle of the wheel that lies under the fixed top pointer once the
\* wheel is turned clockwise by rot degrees (transform: rotate(rot deg))
UnderPointer(rot) ==
    LET r == DMod360(rot) IN IF r = DZero THEN r ELSE DSub(Deg360, r)

\* ----------------------------------------------------------------- state
VARIABLES
    decisionText,    \* useState: text input of the add form
    weight,          \* useState: weight input of the add form
    weightEntry,     \* parseInt of what was last typed into the weight field
    team,            \* useState: team select of the add form
    betterDecision,  \* useState: the fairness override checkbox
    decisionItems,   \* useState: the registry
    notification,    \* useState: the popup message
    isSpinning,      \* useState: the is-animating flag
    rotation,        \* useState: rotation of the wheel, in degrees
    spinTimers,      \* pending setTimeout callbacks of handleDecide, oldest first
    clearTimers,     \* handles of the pending auto-clear timers
    effectTimer,     \* handle the effect's cleanup will clear, 0 if none
    mounted,         \* FALSE once the component is torn down
    now,             \* Date.now()
    result,          \* locals of handleDecide when the step just taken was one
    \* the binary variant (my-app)
    inputValue,          \* useState: the topic field
    binaryNotification,  \* useState notification: the popup message
    binaryTimers,        \* handles of the pending auto-clear timers
    binaryEffectTimer,   \* handle the effect's cleanup will clear, 0 if none
    binaryMounted,       \* TRUE while the component is mounted
    submitted            \* locals of handleSubmit when the step just taken was one

vars == <<decisionText, weight, weightEntry, team, betterDecision,
          decisionItems, notification, isSpinning, rotation, spinTimers,
          clearTimers, effectTimer, mounted, now, result, inputValue,
          binaryNotification, binaryTimers, binaryEffectTimer,
          binaryMounted, submitted>>

wheelVars == <<decisionText, weight, weightEntry, team, betterDecision,
               decisionItems, notification, isSpinning, rotation,
               spinTimers, clearTimers, effectTimer, mounted, now, result>>

binaryVars == <<inputValue, binaryNotification, binaryTimers,
                binaryEffectTimer, binaryMounted, submitted>>

formVars == <<decisionText, weight, weightEntry, team>>

\* random is k when Math.random() returned k / RandomSteps
NoResult ==
    [outcome |-> "none", random |-> 0, randomNum |-> DZero, totalWeight |-> 0,
     selectedItem |-> NoItem,
     winningStartDegree |-> DZero, winningEndDegree |-> DZero]

\* random is k when Math.random() returned k / RandomSteps
NoSubmit == [outcome |-> "none", inputValue |-> <<>>, random |-> 0]

\* the binary variant is not on the page
BinaryAbsent ==
    /\ inputValue = <<>>
    /\ binaryNotification = <<>>
    /\ binaryTimers = {}
    /\ binaryEffectTimer = 0
    /\ binaryMounted = FALSE
    /\ submitted = NoSubmit

\* the state after the first render
Init ==
    /\ BinaryAbsent
    /\ decisionText = <<>>
    /\ weight = 1
    /\ weightEntry = Entry(1)
    /\ team = "product"
    /\ betterDecision = FALSE
    /\ decisionItems = <<>>
    /\ notification = NoNotification
    /\ isSpinning = FALSE
    /\ rotation = DZero
    /\ spinTimers = <<>>
    /\ clearTimers = {}
    /\ effectTimer = 0
    /\ mounted = TRUE
    /\ now = 1
    /\ result = NoResult

\* ------------------------------------------- the auto-clear useEffect
\* a timer handle not in use
FreshHandle(timers) == CHOOSE h \in 1..(Cardinality(timers) + 1) : h \notin timers

\* the effect without its cleanup: the previous timer is left pending
RunEffectWithoutCleanup(n0, s0, n1, s1, timers, held) ==
    IF <<n0, s0>> = <<n1, s1>>
    THEN [timers |-> timers, held |-> held]
    ELSE IF n1 # NoNotification /\ ~ s1
         THEN [timers |-> timers \cup {FreshHandle(timers)},
               held |-> FreshHandle(timers)]
         ELSE [timers |-> timers, held |-> 0]

\* the effect with dependencies [notification, isSpinning], run after a
\* render that took the dependencies from <<n0, s0>> to <<n1, s1>>: the
\* previous cleanup clears its timer, then a timer is set when a
\* notification is shown and the wheel is not spinning
RunEffect(n0, s0, n1, s1, timers, held) ==
    IF <<n0, s0>> = <<n1, s1>>
    THEN [timers |-> timers, held |-> held]
    ELSE LET cleaned == timers \ {held}
         IN  IF n1 # NoNotification /\ ~ s1
             THEN [timers |-> cleaned \cup {FreshHandle(cleaned)},
                   held |-> FreshHandle(cleaned)]
             ELSE [timers |-> cleaned, held |-> 0]

\* the render that follows a handler: notification and isSpinning take
\* the values n1 and s1, and the effect runs
Render(n1, s1) ==
    LET e == RunEffect(notification, isSpinning, n1, s1, clearTimers,
                       effectTimer)
    IN  /\ notification' = n1
        /\ isSpinning' = s1
        /\ clearTimers' = e.timers
        /\ effectTimer' = e.held

NoRender == UNCHANGED <<notification, isSpinning, clearTimers, effectTimer>>

\* --------------------------------------------------------- form inputs
SetDecisionText(t) ==
    /\ mounted
    /\ decisionText' = t
    /\ result' = NoResult
    /\ NoRender
    /\ UNCHANGED <<weight, weightEntry, team, betterDecision, decisionItems,
                   rotation, spinTimers, mounted, now>>
    /\ UNCHANGED binaryVars

\* Math.max(1, parseInt(e.target.value) || 1)
ClampWeight(entry) ==
    LET parsed == IF entry.nan \/ entry.n = 0 THEN 1 ELSE entry.n
    IN  IF parsed < 1 THEN 1 ELSE parsed

SetWeight(entry) ==
    /\ mounted
    /\ weight' = ClampWeight(entry)
    /\ weightEntry' = entry
    /\ result' = NoResult
    /\ NoRender
    /\ UNCHANGED <<decisionText, team, betterDecision, decisionItems,
                   rotation, spinTimers, mounted, now>>
    /\ UNCHANGED binaryVars

SetTeam(t) ==
    /\ mounted
    /\ team' = t
    /\ result' = NoResult
    /\ NoRender
    /\ UNCHANGED <<decisionText, weight, weightEntry, betterDecision,
                   decisionItems, rotation, spinTimers, mounted, now>>
    /\ UNCHANGED binaryVars

ToggleBetterDecision ==
    /\ mounted
    /\ betterDecision' = ~ betterDecision
    /\ result' = NoResult
    /\ NoRender
    /\ UNCHANGED <<formVars, decisionItems, rotation, spinTimers, mounted,
                   now>>
    /\ UNCHANGED binaryVars

\* ---------------------------------------------------- handleAddDecision
\* attributes min and max of the weight field
weightMin == 1
weightMax == 1000

\* the form's constraints without the max of the weight field
FormValidWithoutMax ==
    /\ decisionText # <<>>
    /\ weightMin <= weight

\* the browser dispatches the submit event of the form only when its fields
\* satisfy their constraints: the decision text is required, the weight is
\* required and a number from min to max
FormValid ==
    /\ decisionText # <<>>
    /\ weightMin <= weight
    /\ weight <= weightMax

HandleAddDecision ==
    /\ mounted
    /\ FormValid
    /\ LET text == Trim(decisionText)
           currentWeight == IF weight = 0 THEN 1 ELSE weight
       IN  IF text = <<>> \/ currentWeight <= 0
           THEN /\ Render(AddError, isSpinning)
                /\ UNCHANGED <<formVars, decisionItems>>
           ELSE /\ Len(decisionItems) < MaxItems
                /\ decisionItems' = Append(decisionItems,
                       [id |-> now, decision |-> text,
                        weight |-> currentWeight, team |-> team])
                /\ decisionText' = <<>>
                /\ weight' = 1
                /\ weightEntry' = Entry(1)
                /\ team' = "product"
                /\ NoRender
    /\ result' = NoResult
    /\ UNCHANGED <<betterDecision, rotation, spinTimers, mounted, now>>
    /\ UNCHANGED binaryVars

\* ------------------------------------------------- handleRemoveDecision
RECURSIVE FilterOut(_, _)
FilterOut(items, id) ==
    IF items = <<>> THEN <<>>
    ELSE (IF Head(items).id # id THEN <<Head(items)>> ELSE <<>>)
         \o FilterOut(Tail(items), id)

HandleRemoveDecision(id) ==
    /\ mounted
    /\ decisionItems' = FilterOut(decisionItems, id)
    /\ result' = NoResult
    /\ NoRender
    /\ UNCHANGED <<formVars, betterDecision, rotation, spinTimers, mounted,
                   now>>
    /\ UNCHANGED binaryVars

\* --------------------------------------------------------- handleDecide
\* k / RandomSteps is the value Math.random() returns
HandleDecide(k) ==
    /\ mounted
    /\ ~ (Len(decisionItems) = 0 \/ isSpinning)   \* the button is enabled
    /\ IF ~ EachTeamPresent(decisionItems)
       THEN /\ Render(DecideError, isSpinning)
            /\ result' = [NoResult EXCEPT !.outcome = "error"]
            /\ UNCHANGED <<rotation, spinTimers>>
       ELSE LET c == SelectionTable[Shape(decisionItems), betterDecision, k]
                selectedItem == IF c.selectedItem = 0 THEN NoItem
                                ELSE decisionItems[c.selectedItem]
                locals == [outcome |-> "selected", random |-> k,
                           randomNum |-> c.randomNum,
                           totalWeight |-> c.totalWeight,
                           selectedItem |-> selectedItem,
                           winningStartDegree |-> c.winningStartDegree,
                           winningEndDegree |-> c.winningEndDegree]
            IN  /\ Render(NoNotification, isSpinning)
                /\ IF selectedItem = NoItem
                   THEN /\ result' = [locals EXCEPT !.outcome = "silent"]
                        /\ UNCHANGED <<rotation, spinTimers>>
                   ELSE /\ Len(spinTimers) < MaxPending
                        /\ result' = locals
                        /\ rotation' = c.finalDegree
                        /\ spinTimers' = Append(spinTimers,
                               [selectedItem |-> selectedItem])
    /\ UNCHANGED <<formVars, betterDecision, decisionItems, mounted, now>>
    /\ UNCHANGED binaryVars

\* the callback reporting only while the wheel is flagged as spinning
SpinTimeoutIfSpinning ==
    /\ spinTimers # <<>>
    /\ spinTimers' = Tail(spinTimers)
    /\ IF mounted /\ isSpinning
       THEN Render(FinalMessage(Head(spinTimers).selectedItem.decision),
                   FALSE)
       ELSE NoRender
    /\ result' = NoResult
    /\ UNCHANGED <<formVars, betterDecision, decisionItems, rotation,
                   mounted, now>>
    /\ UNCHANGED binaryVars

\* the callback reporting the item the registry holds, when it runs, under
\* the id of the selected one
SpinTimeoutFromRegistry ==
    /\ spinTimers # <<>>
    /\ spinTimers' = Tail(spinTimers)
    /\ IF mounted
       THEN Render(FinalMessage(
                IF \E i \in 1..Len(decisionItems) :
                       decisionItems[i].id = Head(spinTimers).selectedItem.id
                THEN decisionItems[CHOOSE i \in 1..Len(decisionItems) :
                         decisionItems[i].id
                             = Head(spinTimers).selectedItem.id].decision
                ELSE <<>>), FALSE)
       ELSE NoRender
    /\ result' = NoResult
    /\ UNCHANGED <<formVars, betterDecision, decisionItems, rotation,
                   mounted, now>>
    /\ UNCHANGED binaryVars

\* the callback handleDecide passed to setTimeout; a state update on an
\* unmounted component is dropped
SpinTimeout ==
    /\ spinTimers # <<>>
    /\ spinTimers' = Tail(spinTimers)
    /\ IF mounted
       THEN Render(FinalMessage(Head(spinTimers).selectedItem.decision),
                   FALSE)
       ELSE NoRender
    /\ result' = NoResult
    /\ UNCHANGED <<formVars, betterDecision, decisionItems, rotation,
                   mounted, now>>
    /\ UNCHANGED binaryVars

\* ------------------------------------------- notification auto-clear
NotificationTimeout(h) ==
    /\ h \in clearTimers
    /\ LET e == RunEffect(notification, isSpinning, NoNotification,
                          isSpinning, clearTimers \ {h}, effectTimer)
       IN  IF mounted
           THEN /\ notification' = NoNotification
                /\ clearTimers' = e.timers
                /\ effectTimer' = e.held
           ELSE /\ clearTimers' = clearTimers \ {h}
                /\ UNCHANGED <<notification, effectTimer>>
    /\ result' = NoResult
    /\ UNCHANGED <<formVars, betterDecision, decisionItems, isSpinning,
                   rotation, spinTimers, mounted, now>>
    /\ UNCHANGED binaryVars

\* click on the popup backdrop
DismissPopup ==
    /\ mounted
    /\ notification # NoNotification \/ isSpinning
    /\ IF ~ isSpinning /\ ~ IncludesError(notification)
       THEN Render(NoNotification, isSpinning)
       ELSE NoRender
    /\ result' = NoResult
    /\ UNCHANGED <<formVars, betterDecision, decisionItems, rotation,
                   spinTimers, mounted, now>>
    /\ UNCHANGED binaryVars

\* ---------------------------------------------------------- environment
\* teardown: React runs the cleanup of the effect
Unmount ==
    /\ mounted
    /\ mounted' = FALSE
    /\ clearTimers' = clearTimers \ {effectTimer}
    /\ effectTimer' = 0
    /\ result' = NoResult
    /\ UNCHANGED <<formVars, betterDecision, decisionItems, notification,
                   isSpinning, rotation, spinTimers, now>>
    /\ UNCHANGED binaryVars

\* the clock advances by a millisecond
Tick ==
    /\ now < MaxClock
    /\ now' = now + 1
    /\ result' = NoResult
    /\ NoRender
    /\ UNCHANGED <<formVars, betterDecision, decisionItems, rotation,
                   spinTimers, mounted>>
    /\ UNCHANGED binaryVars

ItemIds == {decisionItems[i].id : i \in 1..Len(decisionItems)}

Next ==
    \/ \E t \in InputTexts : SetDecisionText(t)
    \/ \E e \in WeightEntries : SetWeight(e)
    \/ \E t \in Teams : SetTeam(t)
    \/ ToggleBetterDecision
    \/ HandleAddDecision
    \/ \E id \in ItemIds : HandleRemoveDecision(id)
    \/ \E k \in 0..(RandomSteps - 1) : HandleDecide(k)
    \/ SpinTimeout
    \/ \E h \in clearTimers : NotificationTimeout(h)
    \/ DismissPopup
    \/ Unmount
    \/ Tick

Spec == Init /\ [][Next]_vars

\* ------------------------------------------------ the decide workflow
\* The registries of at most MaxItems items the user can have entered:
\* item i was added at time i with the i-th label, any weight and team.
Alphabet == <<"a", "b", "c", "d", "e">>
Label(i) == <<Alphabet[((i - 1) % Len(Alphabet)) + 1]>>

ItemsAt(i) ==
    {[id |-> i, decision |-> Label(i), weight |-> w, team |-> t] :
        w \in 1..MaxWeight, t \in Teams}

Registries ==
    UNION {{r \in [1..n -> UNION {ItemsAt(i) : i \in 1..n}] :
               \A i \in 1..n : r[i] \in ItemsAt(i)} : n \in 0..MaxItems}

\* the widget with some registry entered and the form idle
InitDecide ==
    /\ BinaryAbsent
    /\ decisionText = <<>>
    /\ weight = 1
    /\ weightEntry = Entry(1)
    /\ team = "product"
    /\ betterDecision \in BOOLEAN
    /\ decisionItems \in Registries
    /\ notification = NoNotification
    /\ isSpinning = FALSE
    /\ rotation = DZero
    /\ spinTimers = <<>>
    /\ clearTimers = {}
    /\ effectTimer = 0
    /\ mounted = TRUE
    /\ now = IF Len(decisionItems) = 0 THEN 1 ELSE Len(decisionItems)
    /\ result = NoResult

NextDecide ==
    \/ ToggleBetterDecision
    \/ \E id \in ItemIds : HandleRemoveDecision(id)
    \/ \E k \in 0..(RandomSteps - 1) : HandleDecide(k)
    \/ SpinTimeout
    \/ \E h \in clearTimers : NotificationTimeout(h)
    \/ DismissPopup
    \/ Unmount

SpecDecide == InitDecide /\ [][NextDecide]_vars

\* fairness: the browser runs every callback passed to setTimeout that is
\* not cleared, and handleDecide's callback is never cleared
SpecDecideFair == SpecDecide /\ WF_vars(SpinTimeout)

\* ----------------------------------------------- editing the registry
\* what the user types into the weight field: no number, a negative
\* number, zero, the least and the largest weight the field accepts and
\* the first it does not
EditWeightEntries ==
    {NaN, Entry(-1), Entry(0), Entry(weightMin), Entry(weightMax),
     Entry(weightMax + 1)}

\* the ids handleRemoveDecision can be called with
RemoveIds == 1..MaxClock

\* the add form and the list of items, from the first render on
NextEdit ==
    \/ \E t \in InputTexts : SetDecisionText(t)
    \/ \E e \in EditWeightEntries : SetWeight(e)
    \/ \E t \in Teams : SetTeam(t)
    \/ HandleAddDecision
    \/ \E id \in RemoveIds : HandleRemoveDecision(id)
    \/ \E h \in clearTimers : NotificationTimeout(h)
    \/ Tick

SpecEdit == Init /\ [][NextEdit]_vars

\* ======================================= the binary variant (my-app)
\* String.prototype.toLowerCase on one character
LowerCaseOf(c) ==
    CASE c = "S" -> "s"
      [] c = "H" -> "h"
      [] c = "O" -> "o"
      [] c = "U" -> "u"
      [] c = "L" -> "l"
      [] c = "D" -> "d"
      [] c = "N" -> "n"
      [] c = "T" -> "t"
      [] OTHER -> c

\* the text as it is
SameCase(text) == text

\* String.prototype.toLowerCase
ToLowerCase(text) == [i \in 1..Len(text) |-> LowerCaseOf(text[i])]

SHOULD == <<"S", "H", "O", "U", "L", "D">>
SHOULDNT == <<"S", "H", "O", "U", "L", "D", "N", "T">>

\* Math.random() < 0.5 ? "SHOULD" : "SHOULDNT", for Math.random() = k / RandomSteps
Decision(k) == IF 2 * k < RandomSteps THEN SHOULD ELSE SHOULDNT

UniverseDecided ==
    <<"T", "h", "e", " ", "u", "n", "i", "v", "e", "r", "s", "e", " ",
      "h", "a", "s", " ", "d", "e", "c", "i", "d", "e", "d", ":", " ",
      "Y", "o", "u", " ">>

\* `The universe has decided: You ${decision.toLowerCase()} ${decisionTopic}!`
Message(decision, decisionTopic) ==
    UniverseDecided \o ToLowerCase(decision) \o <<" ">> \o decisionTopic
        \o <<"!">>

BinaryError == <<"Error: Please ask a question so the universe can decide!">>

\* the state of the binary variant after its first render
BinaryInit ==
    /\ inputValue = <<>>
    /\ binaryNotification = <<>>
    /\ binaryTimers = {}
    /\ binaryEffectTimer = 0
    /\ binaryMounted = TRUE
    /\ submitted = NoSubmit

\* the wheel variant is not on the page
WheelAbsent ==
    /\ decisionText = <<>>
    /\ weight = 1
    /\ weightEntry = Entry(1)
    /\ team = "product"
    /\ betterDecision = FALSE
    /\ decisionItems = <<>>
    /\ notification = NoNotification
    /\ isSpinning = FALSE
    /\ rotation = DZero
    /\ spinTimers = <<>>
    /\ clearTimers = {}
    /\ effectTimer = 0
    /\ mounted = FALSE
    /\ now = 1
    /\ result = NoResult

\* the effect with dependencies [notification], run after a render that took
\* the notification from n0 to n1: the previous cleanup clears its timer,
\* then a timer is set when a notification is shown
BinaryRunEffect(n0, n1, timers, held) ==
    IF n0 = n1
    THEN [timers |-> timers, held |-> held]
    ELSE IF n1 # <<>>
         THEN [timers |-> (timers \ {held}) \cup {FreshHandle(timers \ {held})},
               held |-> FreshHandle(timers \ {held})]
         ELSE [timers |-> timers \ {held}, held |-> 0]

\* the render that follows setNotification(n1), and the effect
BinaryRender(n1) ==
    /\ binaryNotification' = n1
    /\ binaryTimers'
           = BinaryRunEffect(binaryNotification, n1, binaryTimers,
                             binaryEffectTimer).timers
    /\ binaryEffectTimer'
           = BinaryRunEffect(binaryNotification, n1, binaryTimers,
                             binaryEffectTimer).held

\* onChange of the topic field
SetInputValue(t) ==
    /\ binaryMounted
    /\ inputValue' = t
    /\ submitted' = NoSubmit
    /\ UNCHANGED <<binaryNotification, binaryTimers, binaryEffectTimer,
                   binaryMounted>>
    /\ UNCHANGED wheelVars

\* k / RandomSteps is the value Math.random() returns
HandleSubmit(k) ==
    /\ binaryMounted
    /\ IF Trim(inputValue) = <<>>
       THEN /\ BinaryRender(BinaryError)
            /\ submitted' = [outcome |-> "error", inputValue |-> inputValue,
                             random |-> k]
            /\ UNCHANGED inputValue
       ELSE /\ BinaryRender(Message(Decision(k), Trim(inputValue)))
            /\ submitted' = [outcome |-> "decided", inputValue |-> inputValue,
                             random |-> k]
            /\ inputValue' = <<>>
    /\ UNCHANGED binaryMounted
    /\ UNCHANGED wheelVars

\* the auto-clear timer leaving the notification as it is
BinaryTimeoutWithoutClear(h) ==
    /\ h \in binaryTimers
    /\ binaryTimers' = binaryTimers \ {h}
    /\ submitted' = NoSubmit
    /\ UNCHANGED <<inputValue, binaryNotification, binaryEffectTimer,
                   binaryMounted>>
    /\ UNCHANGED wheelVars

\* the callback of the auto-clear timer: setNotification("")
BinaryTimeout(h) ==
    /\ h \in binaryTimers
    /\ IF binaryMounted
       THEN /\ binaryNotification' = <<>>
            /\ binaryTimers'
                   = BinaryRunEffect(binaryNotification, <<>>,
                                     binaryTimers \ {h},
                                     binaryEffectTimer).timers
            /\ binaryEffectTimer'
                   = BinaryRunEffect(binaryNotification, <<>>,
                                     binaryTimers \ {h},
                                     binaryEffectTimer).held
       ELSE /\ binaryTimers' = binaryTimers \ {h}
            /\ UNCHANGED <<binaryNotification, binaryEffectTimer>>
    /\ submitted' = NoSubmit
    /\ UNCHANGED <<inputValue, binaryMounted>>
    /\ UNCHANGED wheelVars

\* teardown: React runs the cleanup of the effect
BinaryUnmount ==
    /\ binaryMounted
    /\ binaryMounted' = FALSE
    /\ binaryTimers' = binaryTimers \ {binaryEffectTimer}
    /\ binaryEffectTimer' = 0
    /\ submitted' = NoSubmit
    /\ UNCHANGED <<inputValue, binaryNotification>>
    /\ UNCHANGED wheelVars

\* what the user types into the topic field
TopicTexts ==
    {<<>>, <<" ">>, <<" ", "a">>, <<"b", " ">>, <<"a", " ", "b">>,
     <<" ", " ">>, <<"c">>}

NextBinary ==
    \/ \E t \in TopicTexts : SetInputValue(t)
    \/ \E k \in 0..(RandomSteps - 1) : HandleSubmit(k)
    \/ \E h \in binaryTimers : BinaryTimeout(h)
    \/ BinaryUnmount

\* the page holds the binary variant alone
InitBinary ==
    /\ WheelAbsent
    /\ BinaryInit

SpecBinary == InitBinary /\ [][NextBinary]_vars

\* ------------------------------------ a decide and edits of the registry
\* the widget with a registry that has room for one more item
InitSpin ==
    /\ InitDecide
    /\ Len(decisionItems) < MaxItems

\* the label the user types for the item to add
SpinTexts == {<<"b", " ">>}

\* decides and their callbacks, with items added and removed and the
\* override toggled at any moment
NextSpin ==
    \/ \E t \in SpinTexts : SetDecisionText(t)
    \/ HandleAddDecision
    \/ \E id \in ItemIds : HandleRemoveDecision(id)
    \/ ToggleBetterDecision
    \/ \E k \in 0..(RandomSteps - 1) : HandleDecide(k)
    \/ SpinTimeout
    \/ \E h \in clearTimers : NotificationTimeout(h)

SpecSpin == InitSpin /\ [][NextSpin]_vars

\* ------------------------------------------- notifications of the page
\* the page holds one of the two variants: the wheel with some registry
\* entered, or the binary variant
InitNotify ==
    \/ InitDecide
    \/ InitBinary

NextNotify ==
    \/ NextDecide
    \/ NextBinary

SpecNotify == InitNotify /\ [][NextNotify]_vars

\* fairness: the browser runs every callback passed to setTimeout that is
\* not cleared
SpecNotifyFair ==
    /\ SpecNotify
    /\ WF_vars(\E h \in clearTimers : NotificationTimeout(h))
    /\ WF_vars(\E h \in binaryTimers : BinaryTimeout(h))

\* ====================================================== properties
\* -------------------------------------------- vocabulary of the claims
\* item i of the registry takes part in the selection
EligibleAt(i) == ~ (betterDecision /\ decisionItems[i].team = "product")

EligibleIdx == {i \in 1..Len(decisionItems) : EligibleAt(i)}

RECURSIVE WeightOf(_)
WeightOf(S) ==
    IF S = {} THEN 0
    ELSE LET i == CHOOSE x \in S : TRUE
         IN  decisionItems[i].weight + WeightOf(S \ {i})

\* weight of the eligible items up to and including item i
CumWeight(i) == WeightOf({j \in EligibleIdx : j <= i})

EligibleTotal == WeightOf(EligibleIdx)

Decided == result.outcome = "selected"

\* the registry holds an item of team "product" and one of team "engineering"
HasBothTeams ==
    /\ \E i \in 1..Len(decisionItems) : decisionItems[i].team = "product"
    /\ \E i \in 1..Len(decisionItems) : decisionItems[i].team = "engineering"

\* C1: a decide that passed the precondition with the draw r in
\* [0, totalWeight) selects the first eligible item, in registry order, at
\* which r minus the eligible weights so far is <= 0: the draws selecting
\* eligible item i are those of (CumWeight(i) - weight_i, CumWeight(i)], an
\* interval of length weight_i (with r = 0 going to the first eligible item).
SelectionByCumulativeWeight ==
    (result.outcome # "none" /\ HasBothTeams) =>
        LET r == result.randomNum
        IN  /\ Decided
            /\ DLt(r, Num[EligibleTotal])
            /\ \E i \in EligibleIdx :
                 /\ result.selectedItem = decisionItems[i]
                 /\ DLe(r, Num[CumWeight(i)])
                 /\ \A j \in EligibleIdx : j < i => DLt(Num[CumWeight(j)], r)
                 /\ \/ DLt(Num[CumWeight(i) - decisionItems[i].weight], r)
                    \/ r = DZero /\ \A j \in EligibleIdx : i <= j

\* a draw on the boundary between the second and the third of three eligible
\* items selected the second
WitnessSelectionByCumulativeWeight ==
    /\ Decided
    /\ Len(decisionItems) = 3 /\ EligibleIdx = {1, 2, 3}
    /\ result.selectedItem = decisionItems[2]
    /\ result.randomNum = Num[CumWeight(2)]

\* the registry without the items of the excluded category
IsKept(item) == item.team # "product"
KeptItems ==
    IF betterDecision THEN SelectSeq(decisionItems, IsKept) ELSE decisionItems

RECURSIVE WeightsUpTo(_, _)
WeightsUpTo(items, p) ==
    IF p = 0 THEN 0 ELSE items[p].weight + WeightsUpTo(items, p - 1)

\* C2: with the fairness override on, the selected item is never of team
\* "product", and the selected item, totalWeight and the winner's segment
\* are those a decide without override computes, for the same draw, on the
\* registry with the "product" items left out; with the override off every
\* item of the registry counts.
OverrideExcludesProduct ==
    Decided =>
        LET kept == KeptItems
            plain == SelectionTable[Shape(kept), FALSE, result.random]
        IN  /\ betterDecision => result.selectedItem.team # "product"
            /\ result.totalWeight = WeightsUpTo(kept, Len(kept))
            /\ plain.totalWeight = result.totalWeight
            /\ plain.selectedItem \in 1..Len(kept)
            /\ kept[plain.selectedItem] = result.selectedItem
            /\ plain.winningStartDegree = result.winningStartDegree
            /\ plain.winningEndDegree = result.winningEndDegree

\* the override is on, and an engineering item that follows a product item
\* was selected
WitnessOverrideExcludesProduct ==
    /\ Decided /\ betterDecision
    /\ Len(decisionItems) = 3
    /\ decisionItems[1].team = "engineering"
    /\ decisionItems[2].team = "product"
    /\ result.selectedItem = decisionItems[3]

\* the segment handleDecide computes for eligible item i: the locals of its
\* loop when the draw falls on item i
SegmentOf(i) ==
    DecideLoop(decisionItems, betterDecision,
               DecideTotalWeight(decisionItems, betterDecision), 1,
               LoopStart(Num[CumWeight(i)]))

FirstEligible(i) == \A j \in EligibleIdx : i <= j
LastEligible(i) == \A j \in EligibleIdx : j <= i
NextEligible(i, j) ==
    i < j /\ \A m \in EligibleIdx : ~ (i < m /\ m < j)

\* C3: after a successful decide, the winner's segment is the one computed
\* for it, and the segments handleDecide computes for the eligible items of
\* the registry tile [0, 360) in registry order: the first starts at 0, each
\* ends where the next starts, the last ends at 360 and each is
\* (weight / total eligible weight) * 360 wide.
SegmentsTileCircle ==
    Decided =>
        /\ \E i \in EligibleIdx :
               /\ decisionItems[i] = result.selectedItem
               /\ SegmentOf(i).winningStartDegree = result.winningStartDegree
               /\ SegmentOf(i).winningEndDegree = result.winningEndDegree
        /\ \A i \in EligibleIdx :
               LET seg == SegmentOf(i)
               IN  /\ seg.selectedItem = i
                   /\ FirstEligible(i) => seg.winningStartDegree = DZero
                   /\ LastEligible(i) => seg.winningEndDegree = Deg360
                   /\ \A j \in EligibleIdx :
                          NextEligible(i, j)
                              => seg.winningEndDegree
                                     = SegmentOf(j).winningStartDegree
                   /\ DSub(seg.winningEndDegree, seg.winningStartDegree)
                          = SegmentDegrees[decisionItems[i].weight,
                                           EligibleTotal]

FiveTurns == DFromInt(5 * 360)

\* the rotation for the winner's segment, as the claim states it
RotationIsFormula ==
    rotation
        = DAdd(DSub(Deg360,
                    DHalf(DAdd(result.winningStartDegree,
                               result.winningEndDegree))),
               FiveTurns)

WinnerIs90To180 ==
    /\ result.winningStartDegree = DFromInt(90)
    /\ result.winningEndDegree = DFromInt(180)

\* C4 as stated: after a successful decide the rotation is
\* (360 - (segmentStart + segmentEnd) / 2) + 5 * 360 for the winner's
\* segment, and the segment 90..180 gives 1845.
RotationFromWinningSegmentAsStated ==
    Decided =>
        /\ RotationIsFormula
        /\ WinnerIs90To180 => rotation = DFromInt(1845)

\* C4: after a successful decide the rotation is
\* (360 - (segmentStart + segmentEnd) / 2) + 5 * 360 for the winner's
\* segment, whatever the rotation was before; the segment 90..180 gives
\* (360 - 135) + 1800 = 2025.
RotationFromWinningSegment ==
    Decided =>
        /\ RotationIsFormula
        /\ WinnerIs90To180 => rotation = DFromInt(2025)

\* a decide whose winner has the segment 90..180 set the rotation to 2025
WitnessRotationFromWinningSegment ==
    /\ Decided
    /\ WinnerIs90To180
    /\ rotation = DFromInt(2025)

\* the items whose arc of the drawn wheel lies under the pointer (an angle
\* on the border of two arcs counts for both)
UnderPointerIdx ==
    LET arcs == GenerateWheelStyle(decisionItems)
        at == UnderPointer(rotation)
    IN  {i \in 1..Len(arcs) : DLe(arcs[i].from, at) /\ DLe(at, arcs[i].to)}

\* C5: after a successful decide, the arc of the wheel drawn from the
\* registry that lies under the top pointer, once the wheel is turned by
\* the rotation, is the arc of the selected item.
PointerLandsOnSelected ==
    Decided =>
        \E i \in UnderPointerIdx : decisionItems[i] = result.selectedItem

\* C6: a decide on a registry without a "product" item or without an
\* "engineering" item, with the override on or off, reports the
\* insufficient-items error and selects nothing: the registry, the rotation
\* and the pending completion callbacks stay as they were.
DecideRejectsMissingTeam ==
    [][(result'.outcome # "none" /\ ~ HasBothTeams) =>
          /\ result'.outcome = "error"
          /\ result'.selectedItem = NoItem
          /\ notification' = DecideError
          /\ decisionItems' = decisionItems
          /\ rotation' = rotation
          /\ spinTimers' = spinTimers]_vars

\* a decide with the override on was rejected on a registry of two items of
\* one team
WitnessDecideRejectsMissingTeam ==
    /\ result.outcome = "error"
    /\ betterDecision
    /\ Len(decisionItems) = 2 /\ ~ HasBothTeams
    /\ notification = DecideError

\* C7: no two selections are in flight at once: the decide trigger is
\* disabled from a successful decide until its completion callback has run,
\* so at most one completion callback is pending.
OneSelectionInFlight == Len(spinTimers) <= 1

\* C8: Idle -> AnimatingToResult -> Idle: isSpinning is true from a
\* successful decide until its completion callback runs.
SpinningWhilePending ==
    (mounted /\ spinTimers # <<>>) => isSpinning

\* some pending completion callback holds an item with this label
PendingFor(label) ==
    \E i \in 1..Len(spinTimers) : spinTimers[i].selectedItem.decision = label

\* C9: a successful decide is never cancelled: unless the widget is torn
\* down, its completion callback eventually runs and sets the notification
\* to 'You should <label>!' for the item it selected.
DecideCompletes ==
    \A n \in 1..Len(Alphabet) :
        (mounted /\ PendingFor(Label(n)))
            ~> (~ mounted
                \/ (notification = <<"You should ">> \o Label(n) \o <<"!">>
                    /\ ~ isSpinning))

\* the completion callback of a decide that selected the second item has run
WitnessDecideCompletes ==
    /\ mounted /\ spinTimers = <<>>
    /\ notification = <<"You should ", "b", "!">>

\* C10: after teardown no timer of the widget is pending: the decide
\* completion timer and the auto-clear timer are cancelled.
NoTimerAfterTeardown ==
    ~ mounted => (spinTimers = <<>> /\ clearTimers = {})

\* ------------------------------------------------ claims on the registry
Spaces(n) == [i \in 1..n |-> " "]

\* label is text without the spaces at its two ends
IsTrimOf(label, text) ==
    /\ label = <<>> \/ (Head(label) # " " /\ label[Len(label)] # " ")
    /\ \E a, b \in 0..Len(text) : text = Spaces(a) \o label \o Spaces(b)

\* the weight the user typed is a number and not positive
EnteredNonPositive == ~ weightEntry.nan /\ weightEntry.n <= 0

\* C11: an add whose label is empty after trimming, or whose entered weight
\* is <= 0, fails: it shows the validation error and leaves the registry
\* unchanged, so no item is appended for the label '' and none for the
\* weight 0.
AddRejectsInvalidInput ==
    [][(HandleAddDecision
           /\ (IsTrimOf(<<>>, decisionText) \/ EnteredNonPositive))
           => (notification' = AddError /\ decisionItems' = decisionItems)]_vars

\* C12: a valid add (label not empty after trimming, positive weight)
\* appends exactly one item, with the trimmed label, the given weight and the
\* given category, at the end of the registry: the count grows by one and
\* every earlier item keeps its position and content.
AddAppendsOneItem ==
    [][(HandleAddDecision /\ ~ IsTrimOf(<<>>, decisionText)) =>
          /\ Len(decisionItems') = Len(decisionItems) + 1
          /\ SubSeq(decisionItems', 1, Len(decisionItems)) = decisionItems
          /\ LET item == decisionItems'[Len(decisionItems')]
             IN  /\ IsTrimOf(item.decision, decisionText)
                 /\ item.weight = weight
                 /\ (~ weightEntry.nan /\ weightEntry.n > 0)
                        => item.weight = weightEntry.n
                 /\ item.team = team]_vars

\* a second item was added from a label typed with a space at its end, the
\* largest weight and the second team, and the form was reset
WitnessAddAppendsOneItem ==
    /\ Len(decisionItems) = 2
    /\ decisionItems[1].decision = <<"a">>
    /\ decisionItems[2].decision = <<"b">>
    /\ decisionItems[2].weight = weightMax
    /\ decisionItems[2].team = "engineering"
    /\ decisionText = <<>> /\ weight = 1 /\ team = "product"

\* C13: the registry never holds two items with the same id, whatever adds
\* and removes were made, adds in immediate succession included.
UniqueIds ==
    \A i, j \in 1..Len(decisionItems) :
        i # j => decisionItems[i].id # decisionItems[j].id

\* C14: every item of the registry has an integer weight from 1 to 1000,
\* whatever the user typed into the weight field before adding.
WeightsInRange ==
    \A i \in 1..Len(decisionItems) : decisionItems[i].weight \in 1..1000

\* an item of weight 1000 and one of weight 1 were added, and the field now
\* holds 1001, typed by the user, with a label ready to be added
WitnessWeightsInRange ==
    /\ Len(decisionItems) = 2
    /\ decisionItems[1].weight = 1000
    /\ decisionItems[2].weight = 1
    /\ weightEntry = Entry(1001) /\ weight = 1001
    /\ decisionText = <<" ", "a">>

\* the registry without its item at position i
WithoutItemAt(i) ==
    SubSeq(decisionItems, 1, i - 1)
        \o SubSeq(decisionItems, i + 1, Len(decisionItems))

\* C15: remove(id) deletes the item with that id and nothing else, the
\* items left keeping their order; when no item has that id the registry,
\* and so its count, is unchanged.
RemoveDeletesOneItem ==
    [][\A id \in RemoveIds :
          HandleRemoveDecision(id) =>
              IF \E i \in 1..Len(decisionItems) : decisionItems[i].id = id
              THEN \E i \in 1..Len(decisionItems) :
                       /\ decisionItems[i].id = id
                       /\ decisionItems' = WithoutItemAt(i)
              ELSE decisionItems' = decisionItems]_vars

\* ------------------------------------------- claims on the binary variant
\* part occurs in text
Contains(text, part) ==
    \E i \in 0..(Len(text) - Len(part)) :
        SubSeq(text, i + 1, i + Len(part)) = part

\* text without the spaces at its two ends
Trimmed(text) ==
    CHOOSE l \in {SubSeq(text, a, b) : a \in 1..(Len(text) + 1),
                                       b \in 0..Len(text)} :
        IsTrimOf(l, text)

ShouldTopic(topic) == <<"s", "h", "o", "u", "l", "d", " ">> \o topic
ShouldntTopic(topic) == <<"s", "h", "o", "u", "l", "d", "n", "t", " ">> \o topic

\* C16: decide(topic) of the binary variant shows the validation error
\* exactly when the topic is empty after trimming; otherwise its message
\* contains exactly one of 'should <topic>' and 'shouldnt <topic>', with the
\* trimmed topic.
SubmitDecidesTopic ==
    submitted.outcome # "none" =>
        LET topic == Trimmed(submitted.inputValue)
        IN  /\ (binaryNotification = BinaryError) <=> (topic = <<>>)
            /\ topic # <<>> =>
                   (Contains(binaryNotification, ShouldTopic(topic))
                        # Contains(binaryNotification, ShouldntTopic(topic)))

\* a submit of the topic typed as 'b ' drew the negative outcome
WitnessSubmitDecidesTopic ==
    /\ submitted.outcome = "decided"
    /\ submitted.inputValue = <<"b", " ">>
    /\ Contains(binaryNotification, ShouldntTopic(<<"b">>))
    /\ binaryNotification[Len(binaryNotification)] = "!"
    /\ Len(binaryNotification) = Len(UniverseDecided) + 11

\* ------------------------------------------------ claims on notifications
\* C17: every non-empty notification shown while no animation is pending is
\* eventually taken down by the auto-clear timer, unless the widget is torn
\* down or a new decide replaces it first (and the replacement is a shown
\* notification in its turn); in both variants.
NotificationCleared ==
    /\ (mounted /\ ~ isSpinning /\ spinTimers = <<>>
            /\ notification # NoNotification)
           ~> (~ mounted \/ notification = NoNotification
                  \/ result.outcome # "none")
    /\ (binaryMounted /\ binaryNotification # <<>>)
           ~> (~ binaryMounted \/ binaryNotification = <<>>
                  \/ submitted.outcome # "none")

\* the result of a decide is shown, no animation is pending and the
\* auto-clear timer of the effect is pending
WitnessNotificationCleared ==
    /\ mounted /\ ~ isSpinning /\ spinTimers = <<>>
    /\ notification = FinalMessage(Label(2))
    /\ effectTimer # 0 /\ clearTimers = {effectTimer}

\* C19: at most one auto-clear timer is pending, in both variants: the
\* effect clears the timer it holds before it sets a new one.
OneClearTimer ==
    /\ Cardinality(clearTimers) <= 1
    /\ Cardinality(binaryTimers) <= 1

\* the insufficient-items error is shown after an earlier decide turned the
\* wheel, and one timer, the one the effect holds, is pending
WitnessOneClearTimer ==
    /\ mounted /\ notification = DecideError /\ rotation # DZero
    /\ Len(spinTimers) = 1
    /\ effectTimer # 0 /\ clearTimers = {effectTimer}

\* C18: the message the completion callback shows names the item that was
\* selected when decide ran, whatever was removed, added or toggled between
\* the decide and the callback.
CallbackNamesSelected ==
    [][/\ result'.outcome = "selected" =>
              /\ Len(spinTimers') = Len(spinTimers) + 1
              /\ spinTimers'[Len(spinTimers')].selectedItem
                     = result'.selectedItem
       /\ (mounted /\ spinTimers # <<>> /\ spinTimers' = Tail(spinTimers)) =>
              notification'
                  = <<"You should ">>
                        \o Head(spinTimers).selectedItem.decision
                        \o <<"!">>]_vars

\* the callback named item 'a', which the registry no longer holds: it was
\* removed and an item 'b' was added; the override is on
WitnessCallbackNamesSelected ==
    /\ notification = <<"You should ", "a", "!">>
    /\ spinTimers = <<>>
    /\ betterDecision
    /\ Len(decisionItems) = 2
    /\ decisionItems[1].decision = <<"b">>
    /\ decisionItems[2].decision = <<"b">>
    /\ decisionItems[1].team = "product"

\* C20: a decide that passes the one-item-per-team precondition always
\* selects an item, an eligible one of the registry: the return on a null
\* selectedItem after the loop is never taken, with the override on or off.
DecideAlwaysSelects ==
    (result.outcome # "none" /\ result.outcome # "error") =>
        /\ result.outcome = "selected"
        /\ result.selectedItem # NoItem
        /\ \E i \in EligibleIdx : decisionItems[i] = result.selectedItem
        /\ spinTimers # <<>>
        /\ spinTimers[Len(spinTimers)].selectedItem = result.selectedItem

\* with the override on and the largest draw, the engineering item between
\* two product items was selected
WitnessDecideAlwaysSelects ==
    /\ Decided /\ betterDecision
    /\ result.random = RandomSteps - 1
    /\ Len(decisionItems) = 3
    /\ decisionItems[1].team = "product"
    /\ decisionItems[2].team = "engineering"
    /\ decisionItems[3].team = "product"
    /\ result.selectedItem = decisionItems[2]

====
